---- MODULE Spec2Model ----
(***************************************************************************)
(* Model of simplex.c: the simplex method on the payoff matrix of a        *)
(* two-player zero-sum game.  The state is that of main(): the command     *)
(* line, the parse and payoff results, the current tableau, the tableau    *)
(* store, the pivot-row order array and the extracted value/strategies.    *)
(* One action per step of main().                                          *)
(*                                                                         *)
(* Doubles are modelled by exact rationals <<num, den>> in lowest terms    *)
(* with den > 0.  The IEEE results of a division by zero are kept apart:   *)
(* <<1, 0>> is +inf, <<-1, 0>> is -inf and <<0, 0>> is NaN.                *)
(***************************************************************************)
EXTENDS Integers, Sequences, FiniteSets, TLC

VARIABLES args, parse_result, payoff_result, order, store, tableau,
          pivot_count, pivot_result, v, value, p1_strategy, p2_strategy,
          out, pc

vars == <<args, parse_result, payoff_result, order, store, tableau,
          pivot_count, pivot_result, v, value, p1_strategy, p2_strategy,
          out, pc>>

(***************************************************************************)
(* Bounds of the model.                                                    *)
(***************************************************************************)
\* payoff matrices with at most MaxCells entries are explored
MaxCells == 4
\* payoff entries range over -MaxNeg .. MaxPay
MaxNeg == 1
MaxPay == 2
\* the pivot loop of the model stops being explored after MaxPivots pivots
MaxPivots == 8

\* stands for the largest finite double; every finite value the model
\* computes is far below it
DBL_MAX == 1000000

(***************************************************************************)
(* Exact arithmetic standing for double arithmetic.                        *)
(***************************************************************************)
Abs(x) == IF x < 0 THEN -x ELSE x

Sign(x) == IF x < 0 THEN -1 ELSE IF x > 0 THEN 1 ELSE 0

RECURSIVE GCD(_, _)
GCD(a, b) == IF b = 0 THEN a ELSE GCD(b, a % b)

Norm(n, d) ==
    LET g == GCD(Abs(n), Abs(d))
    IN  <<(Sign(d) * n) \div g, Abs(d) \div g>>

Rat(i) == <<i, 1>>

IsFinite(a) == a[2] # 0

\* a + b, both finite
RAdd(a, b) == Norm(a[1] * b[2] + b[1] * a[2], a[2] * b[2])

\* a - b, b finite; inf - b = inf and NaN - b = NaN
RSub(a, b) ==
    IF a[2] = 0 THEN a ELSE Norm(a[1] * b[2] - b[1] * a[2], a[2] * b[2])

\* a * b, both finite
RMul(a, b) == Norm(a[1] * b[1], a[2] * b[2])

\* a / b, both finite; x / 0 is +inf, -inf or NaN by the sign of x
RDiv(a, b) ==
    IF b[1] = 0 THEN <<Sign(a[1]), 0>> ELSE Norm(a[1] * b[2], a[2] * b[1])

\* a < b, both finite
RLt(a, b) == a[1] * b[2] < b[1] * a[2]

RLe(a, b) == a[1] * b[2] <= b[1] * a[2]

RECURSIVE RSum(_, _, _)
\* f[lo] + ... + f[hi-1]
RSum(f, lo, hi) == IF lo >= hi THEN Rat(0) ELSE RAdd(f[lo], RSum(f, lo + 1, hi))

(***************************************************************************)
(* strtol(nptr, &endptr, 10) on a string given as a sequence of            *)
(* characters: skips white space, reads an optional sign and the decimal   *)
(* digits.  end is the number of characters consumed; end = 0 is           *)
(* endptr == nptr (no digits).                                             *)
(***************************************************************************)
DigitChars == {"0", "1", "2", "3", "4", "5", "6", "7", "8", "9"}

DigitVal(c) ==
    CASE c = "0" -> 0 [] c = "1" -> 1 [] c = "2" -> 2 [] c = "3" -> 3
      [] c = "4" -> 4 [] c = "5" -> 5 [] c = "6" -> 6 [] c = "7" -> 7
      [] c = "8" -> 8 [] c = "9" -> 9

RECURSIVE SkipSpace(_, _)
SkipSpace(s, i) ==
    IF i <= Len(s) /\ s[i] = " " THEN SkipSpace(s, i + 1) ELSE i

RECURSIVE ParseDigits(_, _, _)
ParseDigits(s, i, acc) ==
    IF i <= Len(s) /\ s[i] \in DigitChars
    THEN ParseDigits(s, i + 1, 10 * acc + DigitVal(s[i]))
    ELSE <<acc, i>>

strtol(s) ==
    LET i0 == SkipSpace(s, 1)
        signed == i0 <= Len(s) /\ s[i0] \in {"-", "+"}
        neg == signed /\ s[i0] = "-"
        i1 == IF signed THEN i0 + 1 ELSE i0
        r == ParseDigits(s, i1, 0)
    IN  IF r[2] = i1
        THEN [value |-> 0, end |-> 0]
        ELSE [value |-> IF neg THEN -r[1] ELSE r[1], end |-> r[2] - 1]

(***************************************************************************)
(* parse_args: argv is the sequence of arguments after the program name,   *)
(* so argc = Len(argv) + 1.                                                *)
(***************************************************************************)
\* the dimension test of parse_args
DimRejected(m, n) == m < 0 \/ n < 0

parse_args(argv) ==
    IF Len(argv) + 1 # 3
    THEN [success |-> FALSE, m |-> -1, n |-> -1]
    ELSE LET pm == strtol(argv[1])
             pn == strtol(argv[2])
         IN  IF pm.end = 0 \/ pn.end = 0 \/ DimRejected(pm.value, pn.value)
             THEN [success |-> FALSE, m |-> -1, n |-> -1]
             ELSE [success |-> TRUE, m |-> pm.value, n |-> pn.value]

(***************************************************************************)
(* Tableaux.  Rows and columns are indexed from 0 as in the source.        *)
(***************************************************************************)
create_tableau(s_size, x_size) ==
    [m |-> [row \in 0 .. s_size |-> [col \in 0 .. (x_size + s_size) |-> Rat(0)]],
     s_size |-> s_size,
     x_size |-> x_size,
     rows |-> s_size + 1,
     cols |-> x_size + s_size + 1,
     k |-> 0]

RECURSIVE MinScan(_, _, _, _, _)
\* the minimum-payoff loop, entry idx = row * n + col
MinScan(payoff, n, idx, total, min) ==
    IF idx >= total THEN min
    ELSE LET p == payoff[idx \div n][idx % n]
         IN  MinScan(payoff, n, idx + 1, total, IF p < min THEN p ELSE min)

\* the shift k chosen from the minimum payoff
ShiftOf(min) == IF min < 1 THEN 1 - min ELSE 0

\* the constant column with the payoff rows and the objective row exchanged
InitConst_Swapped(row, m) == IF row < m THEN Rat(0) ELSE Rat(1)

\* the constant (last) column of the initial tableau
InitConst(row, m) == IF row < m THEN Rat(1) ELSE Rat(0)

get_init_tableau(payoff, m, n) ==
    LET t == create_tableau(m, n)
        min == MinScan(payoff, n, 0, m * n, DBL_MAX)
        k == ShiftOf(min)
    IN  [t EXCEPT
           !.k = k,
           !.m = [row \in 0 .. t.rows - 1 |->
                    [col \in 0 .. t.cols - 1 |->
                       IF col < n
                       THEN (IF row < m THEN Rat(payoff[row][col] + k) ELSE Rat(-1))
                       ELSE IF col < n + m
                       THEN (IF row < m
                             THEN (IF row = col - n THEN Rat(1) ELSE Rat(0))
                             ELSE Rat(0))
                       ELSE InitConst(row, m)]]]

(***************************************************************************)
(* pivot_tableau                                                           *)
(***************************************************************************)
\* the test of the pivot-column scan: a more negative objective entry
BetterCol(val, min_value) == RLt(val, min_value)

RECURSIVE PivotColScan(_, _, _, _)
PivotColScan(t, col, min_value, pivot_col) ==
    IF col >= t.cols THEN pivot_col
    ELSE LET val == t.m[t.rows - 1][col]
         IN  IF BetterCol(val, min_value)
             THEN PivotColScan(t, col + 1, val, col)
             ELSE PivotColScan(t, col + 1, min_value, pivot_col)

\* the row scan accepting a ratio of zero
BetterRow_Ge(val, min_value) ==
    IsFinite(val) /\ val[1] >= 0 /\ RLt(val, min_value)

\* the test of the pivot-row scan: val > 0 && val < min_value.  +inf is not
\* below DBL_MAX, and every comparison with NaN is false
BetterRow(val, min_value) ==
    IsFinite(val) /\ val[1] > 0 /\ RLt(val, min_value)

RECURSIVE PivotRowScan(_, _, _, _, _)
PivotRowScan(t, pivot_col, row, min_value, pivot_row) ==
    IF row >= t.rows THEN pivot_row
    ELSE LET val == RDiv(t.m[row][t.cols - 1], t.m[row][pivot_col])
         IN  IF BetterRow(val, min_value)
             THEN PivotRowScan(t, pivot_col, row + 1, val, row)
             ELSE PivotRowScan(t, pivot_col, row + 1, min_value, pivot_row)

\* the other-row rule with the sign of the correction reversed
OtherRowEntry_Plus(old, factor, piv) == RAdd(old, RMul(factor, piv))

\* the other rows left as they were
OtherRowEntry_Stale(old, factor, piv) == old

\* the other-row rule: old entry - (entry in the pivot column * new pivot row entry)
OtherRowEntry(old, factor, piv) == RSub(old, RMul(factor, piv))

\* the shift left at the 0 of create_tableau
CopyShift_Dropped(k) == 0

\* the shift given to the tableau a pivot produces
CopyShift(k) == k

pivot_tableau(t) ==
    LET fresh == [create_tableau(t.s_size, t.x_size) EXCEPT !.k = CopyShift(t.k)]
        pivot_col == PivotColScan(t, 0, Rat(0), -1)
    IN  IF pivot_col < 0
        THEN [success |-> FALSE, tableau |-> fresh,
              pivot_row |-> -1, pivot_col |-> pivot_col]
        ELSE
        LET pivot_row == PivotRowScan(t, pivot_col, 0, Rat(DBL_MAX), -1)
        IN  IF pivot_row < 0
            THEN [success |-> FALSE, tableau |-> fresh,
                  pivot_row |-> pivot_row, pivot_col |-> pivot_col]
            ELSE
            LET pivot_value == t.m[pivot_row][pivot_col]
                new_row == [col \in 0 .. t.cols - 1 |->
                              RDiv(t.m[pivot_row][col], pivot_value)]
            IN  [success |-> TRUE,
                 tableau |->
                   [fresh EXCEPT !.m =
                      [row \in 0 .. t.rows - 1 |->
                         IF row = pivot_row THEN new_row
                         ELSE [col \in 0 .. t.cols - 1 |->
                                 OtherRowEntry(t.m[row][col],
                                               t.m[row][pivot_col],
                                               new_row[col])]]],
                 pivot_row |-> pivot_row,
                 pivot_col |-> pivot_col]

(***************************************************************************)
(* The tableau store                                                       *)
(***************************************************************************)
new_store == [store |-> <<>>, size |-> 0, capacity |-> 10]

\* the realloc of the source passes a byte count of capacity and drops the
\* result; the store of the model stays below the first capacity
add_tableau(st, t) ==
    LET size == st.size + 1
    IN  [store |-> Append(st.store, t),
         size |-> size,
         capacity |-> IF size = st.capacity THEN st.capacity * 2 ELSE st.capacity]

(***************************************************************************)
(* Extraction of the value and the strategies from the final tableau       *)
(***************************************************************************)
ObjConst(t) == t.m[t.rows - 1][t.cols - 1]

GameValue(t) == RSub(RDiv(Rat(1), ObjConst(t)), Rat(t.k))

P1Strategy(t, m) ==
    [index \in 0 .. m - 1 |->
        RDiv(t.m[t.rows - 1][t.x_size + index], ObjConst(t))]

P2Strategy(t, n, ord) ==
    [index \in 0 .. n - 1 |->
        IF ord[index] >= 0
        THEN RDiv(t.m[ord[index]][t.cols - 1], ObjConst(t))
        ELSE Rat(0)]

(***************************************************************************)
(* Inputs                                                                  *)
(***************************************************************************)
\* command-line words, as sequences of characters
ArgStrings ==
    { <<>>, <<"x">>, <<"-">>, <<"0">>, <<"1">>, <<"2">>, <<"3">>, <<"4">>,
      <<"5">>, <<"-", "1">>, <<"2", "x">>, <<" ", "3">>, <<"1", "2">> }

ArgLists ==
    { <<>>, << <<"1">> >>, << <<"1">>, <<"1">>, <<"1">> >> }
      \cup { <<a, b>> : a \in ArgStrings, b \in ArgStrings }

PayoffValues == (0 - MaxNeg) .. MaxPay

Payoffs(m, n) == [0 .. m - 1 -> [0 .. n - 1 -> PayoffValues]]

NoTableau == create_tableau(0, 0)

NoPivot == [success |-> FALSE, pivot_row |-> -1, pivot_col |-> -1]

(***************************************************************************)
(* main                                                                    *)
(***************************************************************************)
Init ==
    /\ args \in ArgLists
    /\ parse_result = [success |-> FALSE, m |-> -1, n |-> -1]
    /\ payoff_result = [success |-> FALSE, payoff |-> <<>>, m |-> 0, n |-> 0]
    /\ order = <<>>
    /\ store = new_store
    /\ tableau = NoTableau
    /\ pivot_count = 0
    /\ pivot_result = NoPivot
    /\ v = Rat(0)
    /\ value = Rat(0)
    /\ p1_strategy = <<>>
    /\ p2_strategy = <<>>
    /\ out = "none"
    /\ pc = "parse_args"

\* ArgResult_t* parse_result = parse_args(argc, argv)
ParseArgs ==
    /\ pc = "parse_args"
    /\ parse_result' = parse_args(args)
    /\ pc' = IF parse_result'.success THEN "get_payoff" ELSE "usage"
    /\ UNCHANGED <<args, payoff_result, order, store, tableau, pivot_count,
                   pivot_result, v, value, p1_strategy, p2_strategy, out>>

\* wrong usage: print_usage()
Usage ==
    /\ pc = "usage"
    /\ out' = "usage"
    /\ pc' = "done"
    /\ UNCHANGED <<args, parse_result, payoff_result, order, store, tableau,
                   pivot_count, pivot_result, v, value, p1_strategy,
                   p2_strategy>>

\* get_payoff(m, n): every row read and parsed ...
GetPayoff ==
    /\ pc = "get_payoff"
    /\ parse_result.m * parse_result.n <= MaxCells
    /\ \E payoff \in Payoffs(parse_result.m, parse_result.n) :
          payoff_result' = [success |-> TRUE, payoff |-> payoff,
                            m |-> parse_result.m, n |-> parse_result.n]
    /\ pc' = "init"
    /\ UNCHANGED <<args, parse_result, order, store, tableau, pivot_count,
                   pivot_result, v, value, p1_strategy, p2_strategy, out>>

\* ... or a missing or non-numeric token at some row and column
GetPayoffFail ==
    /\ pc = "get_payoff"
    /\ parse_result.m >= 1 /\ parse_result.n >= 1
    /\ parse_result.m * parse_result.n <= MaxCells
    /\ payoff_result' = [success |-> FALSE, payoff |-> <<>>,
                         m |-> parse_result.m, n |-> parse_result.n]
    /\ pc' = "invalid"
    /\ UNCHANGED <<args, parse_result, order, store, tableau, pivot_count,
                   pivot_result, v, value, p1_strategy, p2_strategy, out>>

\* invalid payoff matrix: "Please enter %d valid integers on each line."
InvalidPayoff ==
    /\ pc = "invalid"
    /\ out' = "invalid"
    /\ pc' = "done"
    /\ UNCHANGED <<args, parse_result, payoff_result, order, store, tableau,
                   pivot_count, pivot_result, v, value, p1_strategy,
                   p2_strategy>>

\* order, the store and the initial tableau
InitTableau ==
    /\ pc = "init"
    /\ LET m == payoff_result.m
           n == payoff_result.n
           t == get_init_tableau(payoff_result.payoff, m, n)
       IN  /\ order' = [i \in 0 .. n - 1 |-> -1]
           /\ tableau' = t
           /\ store' = add_tableau(new_store, t)
    /\ pivot_count' = 0
    /\ pc' = "loop"
    /\ UNCHANGED <<args, parse_result, payoff_result, pivot_result, v, value,
                   p1_strategy, p2_strategy, out>>

\* one iteration of the pivot loop with a successful pivot
PivotSuccess ==
    /\ pc = "loop"
    /\ pivot_count < MaxPivots
    /\ LET r == pivot_tableau(tableau)
       IN  /\ r.success
           /\ pivot_result' = [success |-> TRUE, pivot_row |-> r.pivot_row,
                               pivot_col |-> r.pivot_col]
           /\ order' = IF pivot_count < payoff_result.n
                       THEN [order EXCEPT ![pivot_count] = r.pivot_row]
                       ELSE order
           /\ tableau' = r.tableau
           /\ store' = add_tableau(store, r.tableau)
    /\ pivot_count' = pivot_count + 1
    /\ UNCHANGED <<args, parse_result, payoff_result, v, value, p1_strategy,
                   p2_strategy, out, pc>>

\* the iteration whose pivot is unsuccessful: break
PivotFail ==
    /\ pc = "loop"
    /\ pivot_count < MaxPivots
    /\ LET r == pivot_tableau(tableau)
       IN  /\ ~r.success
           /\ pivot_result' = [success |-> FALSE, pivot_row |-> r.pivot_row,
                               pivot_col |-> r.pivot_col]
    /\ pc' = "extract"
    /\ UNCHANGED <<args, parse_result, payoff_result, order, store, tableau,
                   pivot_count, v, value, p1_strategy, p2_strategy, out>>

\* process the final tableau and determine strategies and value
Extract ==
    /\ pc = "extract"
    /\ v' = ObjConst(tableau)
    /\ value' = GameValue(tableau)
    /\ p1_strategy' = P1Strategy(tableau, payoff_result.m)
    /\ p2_strategy' = P2Strategy(tableau, payoff_result.n, order)
    /\ pc' = "print"
    /\ UNCHANGED <<args, parse_result, payoff_result, order, store, tableau,
                   pivot_count, pivot_result, out>>

\* print the tableaux, the strategies and the value
PrintResults ==
    /\ pc = "print"
    /\ out' = "results"
    /\ pc' = "done"
    /\ UNCHANGED <<args, parse_result, payoff_result, order, store, tableau,
                   pivot_count, pivot_result, v, value, p1_strategy,
                   p2_strategy>>

Next ==
    \/ ParseArgs
    \/ Usage
    \/ GetPayoff
    \/ GetPayoffFail
    \/ InvalidPayoff
    \/ InitTableau
    \/ PivotSuccess
    \/ PivotFail
    \/ Extract
    \/ PrintResults

Spec == Init /\ [][Next]_vars

\* a step of the pivot loop: an iteration that pivots, or the break.  One of
\* PivotSuccess and PivotFail is such a step whenever the loop is being run,
\* and no other action leaves pc = "loop"
LoopStep ==
    /\ pc = "loop"
    /\ pivot_count < MaxPivots
    /\ \/ pc' = "loop" /\ pivot_count' = pivot_count + 1
       \/ pc' = "extract" /\ pivot_count' = pivot_count

\* main is single-threaded and nothing suspends it: the loop keeps stepping
FairSpec == Spec /\ WF_<<pc, pivot_count>>(LoopStep)

(***************************************************************************)
(* Properties                                                              *)
(***************************************************************************)
\* a payoff matrix with m >= 1 and n >= 1 was read
ValidDims ==
    payoff_result.success /\ payoff_result.m >= 1 /\ payoff_result.n >= 1

\* the value and the strategies have been computed
Extracted == pc = "print" \/ (pc = "done" /\ out = "results")

\* s[0 .. len-1] is a probability vector
IsDistribution(s, len) ==
    /\ \A i \in 0 .. len - 1 : IsFinite(s[i]) /\ s[i][1] >= 0
    /\ RSum(s, 0, len) = Rat(1)

\* C1: once the pivot loop has stopped on an m x n matrix (m, n >= 1), the
\* player-1 and the player-2 strategy each sum to 1 and have no negative
\* component.
C1_StrategiesValid ==
    (Extracted /\ ValidDims) =>
        /\ IsDistribution(p1_strategy, payoff_result.m)
        /\ IsDistribution(p2_strategy, payoff_result.n)

\* expected payoff of the mixed strategy p of player 1 against column j
AgainstCol(p, j) ==
    RSum([i \in 0 .. payoff_result.m - 1 |->
            RMul(p[i], Rat(payoff_result.payoff[i][j]))], 0, payoff_result.m)

\* expected payoff of row i against the mixed strategy q of player 2
AgainstRow(q, i) ==
    RSum([j \in 0 .. payoff_result.n - 1 |->
            RMul(Rat(payoff_result.payoff[i][j]), q[j])], 0, payoff_result.n)

\* C2: the extracted value and strategies are optimal: player 1's strategy
\* earns at least the value against every column, and player 2's strategy
\* concedes at most the value to every row.
C2_Optimal ==
    (Extracted /\ ValidDims) =>
        /\ IsFinite(value)
        /\ \A j \in 0 .. payoff_result.n - 1 :
              RLe(value, AgainstCol(p1_strategy, j))
        /\ \A i \in 0 .. payoff_result.m - 1 :
              RLe(AgainstRow(p2_strategy, i), value)

\* the initial tableau has been built
Built == store.size >= 1

InitialTableau == store.store[1]

\* the objective row of the initial tableau: -1 in the decision columns and
\* 0 in the slack columns
ObjRowOfInit(t) ==
    /\ \A col \in 0 .. t.x_size - 1 : t.m[t.s_size][col] = Rat(-1)
    /\ \A col \in t.x_size .. t.x_size + t.s_size - 1 : t.m[t.s_size][col] = Rat(0)

\* C3 as stated: in the initial tableau the last column holds 0 in every
\* payoff row and 1 in the objective row; the objective row holds -1 in every
\* decision column and 0 in every slack column.
C3_Original ==
    Built =>
        LET t == InitialTableau
        IN  /\ \A row \in 0 .. t.s_size - 1 : t.m[row][t.cols - 1] = Rat(0)
            /\ t.m[t.s_size][t.cols - 1] = Rat(1)
            /\ ObjRowOfInit(t)

\* C3 amended: in the initial tableau the last column holds 1 in every payoff
\* row and 0 in the objective row; the objective row holds -1 in every
\* decision column and 0 in every slack column.
C3_InitTableau ==
    Built =>
        LET t == InitialTableau
        IN  /\ \A row \in 0 .. t.s_size - 1 : t.m[row][t.cols - 1] = Rat(1)
            /\ t.m[t.s_size][t.cols - 1] = Rat(0)
            /\ ObjRowOfInit(t)

C3_Witness ==
    /\ pc = "loop" /\ pivot_count = 0
    /\ payoff_result.m = 2 /\ payoff_result.n = 2

\* the least entry of the payoff matrix
PMin ==
    CHOOSE x \in PayoffValues :
        /\ \E i \in 0 .. payoff_result.m - 1, j \in 0 .. payoff_result.n - 1 :
              payoff_result.payoff[i][j] = x
        /\ \A i \in 0 .. payoff_result.m - 1, j \in 0 .. payoff_result.n - 1 :
              payoff_result.payoff[i][j] >= x

\* C4: the initial tableau has shift k = max(0, 1 - p_min), its payoff
\* entries are payoff + k and at least 1, and every tableau produced by a
\* pivot carries the same k.
C4_Shift ==
    (Built /\ ValidDims) =>
        LET t == InitialTableau
            k == IF 1 - PMin > 0 THEN 1 - PMin ELSE 0
        IN  /\ t.k = k
            /\ \A row \in 0 .. payoff_result.m - 1, col \in 0 .. payoff_result.n - 1 :
                  /\ t.m[row][col] = Rat(payoff_result.payoff[row][col] + k)
                  /\ RLe(Rat(1), t.m[row][col])
            /\ \A i \in 1 .. Len(store.store) : store.store[i].k = k
            /\ tableau.k = k

C4_Witness ==
    /\ ValidDims /\ store.size >= 3
    /\ InitialTableau.k = 2 /\ tableau.k = 2

\* the last pivot found a column and no row
NoRowEnding ==
    /\ ~pivot_result.success
    /\ pivot_result.pivot_col >= 0
    /\ pivot_result.pivot_row < 0

\* C5: when a pivot column is found and no row has a positive ratio, the
\* solve ends in failure: no value and no strategies are produced from the
\* current tableau.
C5_NoRowIsFailure ==
    (ValidDims /\ NoRowEnding) => (~Extracted /\ out # "results")

\* C6 as stated: every successful pivot makes the objective row's last entry
\* strictly smaller.
C6_Original ==
    \A i \in 1 .. Len(store.store) - 1 :
        RLt(ObjConst(store.store[i + 1]), ObjConst(store.store[i]))

\* C6 amended: every successful pivot makes the objective row's last entry
\* strictly greater than that of the predecessor tableau.
C6_Increasing ==
    \A i \in 1 .. Len(store.store) - 1 :
        RLt(ObjConst(store.store[i]), ObjConst(store.store[i + 1]))

C6_Witness == ValidDims /\ store.size >= 3 /\ pivot_result.success

\* C7: parse_args fails, and no tableau is built, whenever a dimension
\* argument is less than or equal to 0.
C7_RejectsNonPositive ==
    (/\ pc # "parse_args"
     /\ Len(args) = 2
     /\ strtol(args[1]).end # 0 /\ strtol(args[2]).end # 0
     /\ (strtol(args[1]).value <= 0 \/ strtol(args[2]).value <= 0))
    => (~parse_result.success /\ store.size = 0)

\* C8: in every tableau reached by successful pivots the constant column is
\* non-negative in every constraint row.
C8_Feasible ==
    ValidDims =>
        \A i \in 1 .. Len(store.store) :
            \A row \in 0 .. payoff_result.m - 1 :
                LET t == store.store[i]
                IN  t.m[row][t.cols - 1][1] >= 0

\* no tableau occurs twice in the store
NoRepeat ==
    \A i, j \in 1 .. Len(store.store) :
        i < j => store.store[i].m # store.store[j].m

\* C9: the pivot loop always ends: no tableau is reached twice and the loop
\* is left after an unsuccessful pivot.
C9_Terminates ==
    /\ [](ValidDims => NoRepeat)
    /\ []((pc = "loop" /\ ValidDims) => <>(pc = "extract"))

C9_Witness ==
    /\ pc = "extract" /\ ValidDims
    /\ pivot_count >= 3 /\ NoRepeat /\ ~pivot_result.success

\* C10: when the pivot loop has stopped on an m x n matrix (m, n >= 1), the
\* objective row's last entry v is strictly positive, and the divisions by v
\* give finite results.
C10_PositiveV ==
    (ValidDims /\ pc \in {"extract", "print", "done"}) =>
        /\ IsFinite(ObjConst(tableau)) /\ ObjConst(tableau)[1] > 0
        /\ Extracted =>
              /\ v = ObjConst(tableau)
              /\ IsFinite(value)
              /\ \A i \in 0 .. payoff_result.m - 1 : IsFinite(p1_strategy[i])
              /\ \A i \in 0 .. payoff_result.n - 1 : IsFinite(p2_strategy[i])

C10_Witness ==
    /\ pc = "print" /\ ValidDims /\ pivot_count >= 2
    /\ v[1] > 0

====
